---------------------------- MODULE Spec2Model ----------------------------
(***************************************************************************)
(* Model of the deferred tile pipeline of prof-viewer:                     *)
(*   app.rs            Context.passport, Window::content, Summary, Slot    *)
(*   deferred_data.rs  DeferredDataSourceWrapper                           *)
(*   http/queueclient.rs  HTTPQueueDataSource (process_queue, queue_work)  *)
(*   queue/queue.rs    ProcessType, Work                                   *)
(* The transport (ehttp::fetch and the backend behind it) is the           *)
(* environment: it completes or drops each submitted request, in any       *)
(* order, and chooses the response.                                        *)
(*                                                                         *)
(* The specifications share the state:                                     *)
(*   Spec      the passport-guarded call sites of app.rs, one step each,   *)
(*             over the wrapper and the queue data source                  *)
(*   PollSpec  the wrapper's operations called without the passport        *)
(*   LockSpec  process_queue and the completion callback split into the    *)
(*             steps that take, use and drop the queue's Mutex             *)
(*   FoldSpec  the same drain over queues of already completed per-tile    *)
(*             items, several of them for one cache key                    *)
(*   IntervalSpec, PathSpec  the pure operations on Interval and EntryID   *)
(*   FrameSpec the entities of app.rs, a whole content() call a step       *)
(*   AnswerSpec the single-tile fetches against a backend that is free in  *)
(*             the tile id of its answer                                   *)
(*   ZoomSpec  the zoom history of ProfApp (zoom, undo_zoom, redo_zoom)    *)
(*   NodeSpec  the node range sliders of Window::node_selection            *)
(*   HighlightSpec  the highlight bookkeeping of SelectedState             *)
(*   SearchSpec  SelectedState::search over short strings                  *)
(*                                                                         *)
(* Option<T> is modelled as a sequence of length 0 (None) or 1 (Some).     *)
(* A BTreeMap is a function whose DOMAIN is the set of keys.               *)
(***************************************************************************)
EXTENDS Integers, Sequences, FiniteSets, TLC

\* ------------------------------------------------------------------ bounds
\* Number of requests that may be handed to the transport in one behaviour.
MaxSubmit == 3
\* The tiles a buffer of the wrapper holds at most between two gets.
MaxBuffer == 2

\* ------------------------------------------------------------- data values
None == <<>>
Some(x) == <<x>>

Interval(a, b) == [start |-> a, stop |-> b]
\* Interval::default() (derive(Default)): both timestamps zero.
IntervalDefault == Interval(0, 0)

\* timestamp.rs is not part of the sources; the two operations are modelled
\* from the specification (section 4.1).
\* (overlaps_open: intervals that only touch at an end point do not overlap.)
overlaps_open(a, b) ==
    LET lo == IF a.start > b.start THEN a.start ELSE b.start
        hi == IF a.stop < b.stop THEN a.stop ELSE b.stop
    IN lo < hi
overlaps(a, b) ==
    LET lo == IF a.start > b.start THEN a.start ELSE b.start
        hi == IF a.stop < b.stop THEN a.stop ELSE b.stop
    IN lo <= hi

intersection(a, b) ==
    Interval(IF a.start > b.start THEN a.start ELSE b.start,
             IF a.stop < b.stop THEN a.stop ELSE b.stop)

\* EntryID: a path of indices. root() is the empty path, child(i) appends i.
root == <<>>
child(e, i) == Append(e, i)
\* EntryID::summary(): the summary row of a panel (its index is not a slot).
summary_id(e) == Append(e, -1)

\* The entries of the modelled profile: the root panel's summary and two slots.
SummaryEntry == summary_id(root)
SlotA == child(root, 0)
SlotB == child(root, 1)
SummaryEntries == {SummaryEntry}
SlotEntries == {SlotA, SlotB}
Entries == SummaryEntries \cup SlotEntries

\* The intervals the backend may report as the profile's interval.
IntervalA == Interval(0, 3)
IntervalB == Interval(3, 6)
BackendIntervals == {IntervalA, IntervalB}
Intervals == {IntervalDefault} \cup BackendIntervals
\* Initializer.interval, copied into Config.interval (app.rs:960).
ConfigInterval == Interval(0, 6)

\* TileID(Interval): the addressable granules.
TileID(i) == i
Tile1 == TileID(Interval(0, 2))
Tile2 == TileID(Interval(3, 5))
Tiles == {Tile1, Tile2}

\* queue.rs ProcessType
ProcessTypes ==
    {"FETCH_SLOT_META_TILE", "FETCH_SLOT_META_TILES", "FETCH_SLOT_TILE",
     "FETCH_SLOT_TILES", "REQUEST_TILES", "FETCH_SUMMARY_TILE",
     "FETCH_SUMMARY_TILES", "INTERVAL"}

\* queue.rs Work.  id is a ghost field: the position of the request in the
\* log of requests handed to the transport (no code reads it).
Work(entry_id, tile_id, tile_ids, interval, data, process_type) ==
    [entry_id |-> entry_id, tile_id |-> tile_id, tile_ids |-> tile_ids,
     interval |-> interval, data |-> data, process_type |-> process_type,
     id |-> 0]

\* A response body is a JSON text.  It is modelled by the type it was
\* serialised from and the value; Malformed is any text no type parses.
Json(shape, val) == [shape |-> shape, val |-> val]
Malformed == Json("invalid", 0)
EmptyBody == Json("empty", 0)

\* serde_json::from_str::<T>(text): Some(value) when the text is the JSON of
\* a T, None (an Err, which the callers unwrap) otherwise.
from_str(shape, text) ==
    IF text.shape = shape THEN Some(text.val) ELSE None

\* (PutIfAbsent: an insert that keeps the value a key already has.)
PutIfAbsent(m, k, v) ==
    [x \in (DOMAIN m) \cup {k} |-> IF x \in DOMAIN m THEN m[x] ELSE v]
\* BTreeMap::insert
Put(m, k, v) == [x \in (DOMAIN m) \cup {k} |-> IF x = k THEN v ELSE m[x]]
\* BTreeMap::get
Get(m, k) == IF k \in DOMAIN m THEN Some(m[k]) ELSE None
EmptyMap == <<>>

\* ------------------------------------------------- HTTPQueueDataSource
\* The struct's fields (queueclient.rs:21-36), the shared queue it holds an
\* Arc of, and the requests it has handed to ehttp::fetch:
\*   sent     the log of requests handed to the transport, in order
\*   tstate   per request: "pending", "pushed" (callback ran) or "failed"
\*   folds    ghost, per request: how many times process_queue folded its item
\*   panicked an unwrap() failed (the queue mutex is poisoned)
\*   locks    ghost: how often the operation called last locked the queue
ds_new ==
    [queue |-> <<>>,
     interval |-> IntervalDefault,
     request_tiles_cache |-> EmptyMap,
     fetch_summary_tile_cache |-> EmptyMap,
     fetch_summary_tiles_cache |-> EmptyMap,
     fetch_slot_tile_cache |-> EmptyMap,
     fetch_slot_tiles_cache |-> EmptyMap,
     fetch_slot_meta_tile_cache |-> EmptyMap,
     fetch_slot_meta_tiles_cache |-> EmptyMap,
     sent |-> <<>>,
     tstate |-> <<>>,
     folds |-> <<>>,
     panicked |-> FALSE,
     locks |-> 0]

\* The entry of a public operation: it has locked nothing yet.
enter(d) == [d EXCEPT !.locks = 0]

\* The type each process type deserialises work.data into.
ShapeOf(pt) ==
    CASE pt = "FETCH_SLOT_META_TILE" -> "SlotMetaTile"
      [] pt = "FETCH_SLOT_TILE" -> "SlotTile"
      [] pt = "REQUEST_TILES" -> "Vec<TileID>"
      [] pt = "FETCH_SUMMARY_TILE" -> "SummaryTile"
      [] pt = "FETCH_SLOT_META_TILES" -> "Vec<SlotMetaTile>"
      [] pt = "FETCH_SLOT_TILES" -> "Vec<SlotTile>"
      [] pt = "FETCH_SUMMARY_TILES" -> "Vec<SummaryTile>"
      [] pt = "INTERVAL" -> "Interval"

\* (process_interval_changed: the caches are cleared only when the interval
\* received differs from the one stored.)
process_interval_changed(d, v) ==
    IF v = d.interval THEN d
    ELSE [d EXCEPT !.interval = v,
                   !.request_tiles_cache = EmptyMap,
                   !.fetch_slot_meta_tile_cache = EmptyMap,
                   !.fetch_slot_tile_cache = EmptyMap,
                   !.fetch_summary_tile_cache = EmptyMap,
                   !.fetch_summary_tiles_cache = EmptyMap,
                   !.fetch_slot_meta_tiles_cache = EmptyMap,
                   !.fetch_slot_tiles_cache = EmptyMap]
\* The INTERVAL arm of process_queue: store the interval, clear all caches.
process_interval(d, v) ==
    [d EXCEPT !.interval = v,
              !.request_tiles_cache = EmptyMap,
              !.fetch_slot_meta_tile_cache = EmptyMap,
              !.fetch_slot_tile_cache = EmptyMap,
              !.fetch_summary_tile_cache = EmptyMap,
              !.fetch_summary_tiles_cache = EmptyMap,
              !.fetch_slot_meta_tiles_cache = EmptyMap,
              !.fetch_slot_tiles_cache = EmptyMap]

\* One iteration of the loop of process_queue: the match on process_type.
process_work(d, work) ==
    LET r == from_str(ShapeOf(work.process_type), work.data)
        v == r[1]
        pt == work.process_type
        f == [d EXCEPT !.folds[work.id] = @ + 1]
    IN IF r = None THEN [d EXCEPT !.panicked = TRUE]
       ELSE CASE pt = "FETCH_SLOT_META_TILE" ->
                   [f EXCEPT !.fetch_slot_meta_tile_cache =
                                 Put(@, <<work.entry_id, v.tile_id>>, v)]
              [] pt = "FETCH_SLOT_TILE" ->
                   [f EXCEPT !.fetch_slot_tile_cache =
                                 Put(@, <<work.entry_id, v.tile_id>>, v)]
              [] pt = "REQUEST_TILES" ->
                   [f EXCEPT !.request_tiles_cache =
                                 Put(@, <<work.entry_id, work.interval[1]>>, v)]
              [] pt = "FETCH_SUMMARY_TILE" ->
                   [f EXCEPT !.fetch_summary_tile_cache =
                                 Put(@, <<work.entry_id, v.tile_id>>, v)]
              [] pt = "FETCH_SLOT_META_TILES" ->
                   [f EXCEPT !.fetch_slot_meta_tiles_cache =
                                 Put(@, <<work.entry_id, work.tile_ids[1]>>, v)]
              [] pt = "FETCH_SLOT_TILES" ->
                   [f EXCEPT !.fetch_slot_tiles_cache =
                                 Put(@, <<work.entry_id, work.tile_ids[1]>>, v)]
              [] pt = "FETCH_SUMMARY_TILES" ->
                   [f EXCEPT !.fetch_summary_tiles_cache =
                                 Put(@, <<work.entry_id, work.tile_ids[1]>>, v)]
              [] pt = "INTERVAL" -> process_interval(f, v)

\* for work in q.iter() { ... }: the items in queue order; a failed unwrap
\* ends the loop (and the thread) where it stands.
RECURSIVE process_works(_, _)
process_works(d, q) ==
    IF q = <<>> \/ d.panicked THEN d
    ELSE process_works(process_work(d, Head(q)), Tail(q))

\* process_queue: under the lock, fold every item, then q.clear().  When the
\* mutex is poisoned lock().unwrap() panics again and nothing changes.
process_queue(d) ==
    IF d.panicked THEN d
    ELSE LET r == process_works([d EXCEPT !.locks = @ + 1], d.queue)
         IN IF r.panicked THEN r ELSE [r EXCEPT !.queue = <<>>]

\* queue_work: build the request and hand it to ehttp::fetch; the callback
\* (TransportPush below) runs later.
queue_work(d, work) ==
    [d EXCEPT !.sent = Append(@, [work EXCEPT !.id = Len(d.sent) + 1]),
              !.tstate = Append(@, "pending"),
              !.folds = Append(@, 0)]

\* An operation's outcome: the data source after it and the value returned.
Out(d, ret) == [d |-> d, ret |-> ret]

\* The shared tail of the seven fetch operations: cache hit returns the
\* value, a miss queues the work and returns None.
\* (lookup_or_queue_relock: a miss that drains once more before it queues.)
lookup_or_queue_relock(d, cache, key, work) ==
    IF Get(cache, key) # None THEN Out(d, Get(cache, key))
    ELSE Out(queue_work(process_queue(d), work), None)
lookup_or_queue(d, cache, key, work) ==
    IF Get(cache, key) # None THEN Out(d, Get(cache, key))
    ELSE Out(queue_work(d, work), None)

\* DataSource::interval
ds_interval(d0) ==
    LET d == process_queue(enter(d0))
    IN Out(queue_work(d, Work(root, None, None, None, EmptyBody, "INTERVAL")),
           d.interval)

\* DataSource::fetch_info: drain, return the stored EntryInfo
ds_fetch_info(d0) == Out(process_queue(enter(d0)), "fetch_info")

\* DataSource::init: return the stored Initializer
ds_init(d) == Out(enter(d), "initializer")

\* DataSource::request_tiles
request_tiles(d0, entry_id, request_interval) ==
    LET d == process_queue(enter(d0))
    IN lookup_or_queue(d, d.request_tiles_cache, <<entry_id, request_interval>>,
           Work(entry_id, None, None, Some(request_interval), EmptyBody,
                "REQUEST_TILES"))

\* DataSource::fetch_summary_tile (no process_queue call in the source)
fetch_summary_tile(d0, entry_id, tile_id) ==
    LET d == enter(d0)
    IN lookup_or_queue(d, d.fetch_summary_tile_cache, <<entry_id, tile_id>>,
           Work(entry_id, Some(tile_id), None, None, EmptyBody,
                "FETCH_SUMMARY_TILE"))

\* DataSource::fetch_summary_tiles (no process_queue call in the source)
fetch_summary_tiles(d0, entry_id, tile_ids) ==
    LET d == enter(d0)
    IN lookup_or_queue(d, d.fetch_summary_tiles_cache, <<entry_id, tile_ids>>,
           Work(entry_id, None, Some(tile_ids), None, EmptyBody,
                "FETCH_SUMMARY_TILES"))

\* DataSource::fetch_slot_tile
fetch_slot_tile(d0, entry_id, tile_id) ==
    LET d == process_queue(enter(d0))
    IN lookup_or_queue(d, d.fetch_slot_tile_cache, <<entry_id, tile_id>>,
           Work(entry_id, Some(tile_id), None, None, EmptyBody,
                "FETCH_SLOT_TILE"))

\* DataSource::fetch_slot_tiles
fetch_slot_tiles(d0, entry_id, tile_ids) ==
    LET d == process_queue(enter(d0))
    IN lookup_or_queue(d, d.fetch_slot_tiles_cache, <<entry_id, tile_ids>>,
           Work(entry_id, None, Some(tile_ids), None, EmptyBody,
                "FETCH_SLOT_TILES"))

\* DataSource::fetch_slot_meta_tile
fetch_slot_meta_tile(d0, entry_id, tile_id) ==
    LET d == process_queue(enter(d0))
    IN lookup_or_queue(d, d.fetch_slot_meta_tile_cache, <<entry_id, tile_id>>,
           Work(entry_id, Some(tile_id), None, None, EmptyBody,
                "FETCH_SLOT_META_TILE"))

\* DataSource::fetch_slot_meta_tiles
fetch_slot_meta_tiles(d0, entry_id, tile_ids) ==
    LET d == process_queue(enter(d0))
    IN lookup_or_queue(d, d.fetch_slot_meta_tiles_cache, <<entry_id, tile_ids>>,
           Work(entry_id, None, Some(tile_ids), None, EmptyBody,
                "FETCH_SLOT_META_TILES"))

\* --------------------------------------------- DeferredDataSourceWrapper
\* deferred_data.rs:19-37.  The wrapper is written against a data source
\* that returns the data itself; HTTPQueueDataSource returns an Option, and
\* a None contributes nothing (no tile ids, no tile pushed).
wr_new ==
    [tiles |-> EmptyMap,
     summary_tiles |-> <<>>,
     slot_tiles |-> <<>>,
     slot_meta_tiles |-> <<>>,
     panicked |-> FALSE]

\* The pair the wrapper's operations act on.
Sys(d, w) == [d |-> d, w |-> w]

Contains(seq, x) == \E i \in 1..Len(seq) : seq[i] = x
Elems(seq) == {seq[i] : i \in 1..Len(seq)}

\* tiles.into_iter().filter(|&x| !value.contains(&x))
NotIn(tiles, value) ==
    LET keep(x) == ~Contains(value, x) IN SelectSeq(tiles, keep)

\* The merge of fetch_tiles (deferred_data.rs:49-58): the entry's list, or
\* the new tiles when the entry has none, extended by the new tiles that the
\* list did not contain.
merge_tiles(m, entry_id, tiles) ==
    LET value == IF entry_id \in DOMAIN m THEN m[entry_id] ELSE tiles
    IN Put(m, entry_id, value \o NotIn(tiles, value))

\* DeferredDataSource::fetch_tiles
w_fetch_tiles(s, entry_id, request_interval) ==
    LET r == request_tiles(s.d, entry_id, request_interval)
        tiles == IF r.ret = None THEN <<>> ELSE r.ret[1]
    IN Sys(r.d, [s.w EXCEPT !.tiles = merge_tiles(@, entry_id, tiles)])

\* DeferredDataSource::get_tiles: self.tiles.get(&entry_id).unwrap().clone()
w_get_tiles(s, entry_id) ==
    IF entry_id \in DOMAIN s.w.tiles
    THEN Out(s, s.w.tiles[entry_id])
    ELSE Out(Sys(s.d, [s.w EXCEPT !.panicked = TRUE]), <<>>)

\* DeferredDataSource::fetch_summary_tile
w_fetch_summary_tile(s, entry_id, tile_id) ==
    LET r == fetch_summary_tile(s.d, entry_id, tile_id)
    IN Sys(r.d, [s.w EXCEPT !.summary_tiles = @ \o r.ret])

\* (w_get_summary_tiles_keep: a get that returns the buffer and keeps it.)
w_get_summary_tiles_keep(s) ==
    Out(s, s.w.summary_tiles)
\* DeferredDataSource::get_summary_tiles
w_get_summary_tiles(s) ==
    Out(Sys(s.d, [s.w EXCEPT !.summary_tiles = <<>>]), s.w.summary_tiles)

\* DeferredDataSource::fetch_slot_tile
w_fetch_slot_tile(s, entry_id, tile_id) ==
    LET r == fetch_slot_tile(s.d, entry_id, tile_id)
    IN Sys(r.d, [s.w EXCEPT !.slot_tiles = @ \o r.ret])

\* DeferredDataSource::get_slot_tile
w_get_slot_tile(s) ==
    Out(Sys(s.d, [s.w EXCEPT !.slot_tiles = <<>>]), s.w.slot_tiles)

\* DeferredDataSource::fetch_slot_meta_tile
w_fetch_slot_meta_tile(s, entry_id, tile_id) ==
    LET r == fetch_slot_meta_tile(s.d, entry_id, tile_id)
    IN Sys(r.d, [s.w EXCEPT !.slot_meta_tiles = @ \o r.ret])

\* DeferredDataSource::get_slot_meta_tile
w_get_slot_meta_tile(s) ==
    Out(Sys(s.d, [s.w EXCEPT !.slot_meta_tiles = <<>>]), s.w.slot_meta_tiles)

\* ------------------------------------------------------ the call sites
\* The stamps of app.rs: format!("{:x}", hash) of a DefaultHasher fed the
\* listed values.  The hash is modelled by the values it was fed (no two
\* distinct inputs collide).
StampFetchTiles(entry_id, interval) ==
    [e |-> entry_id, s |-> interval, k |-> "fetch_tiles"]
StampSummaryTile(entry_id, tile) ==
    [e |-> entry_id, s |-> tile, k |-> "summary_tile"]
StampSlotTile(entry_id, tile) ==
    [e |-> entry_id, s |-> tile, k |-> "slot_tile"]
\* Slot::fetch_meta_tile hashes the tile id and the tag only.
StampMetaTile(entry_id, tile) ==
    [s |-> tile, k |-> "fetch_meta_tile"]

\* if !cx.passport.contains(&stamp) { cx.passport.insert(stamp); fetch }
\* The context's part of a call site: the passport after the check.
\* (IssueForget: the insert left out.  ShouldIssueAlways: the check left out.
\* IssueReplace: an insert that drops the stamps held before.)
IssueForget(passport, stamp) == passport
IssueReplace(passport, stamp) == {stamp}
Issue(passport, stamp) == passport \cup {stamp}
ShouldIssueAlways(passport, stamp) == TRUE
ShouldIssue(passport, stamp) == stamp \notin passport

\* ------------------------------------------------------------- the state
VARIABLES
    ds,             \* the HTTPQueueDataSource, its queue and its requests
    wr,             \* the DeferredDataSourceWrapper around it
    passport,       \* Context.passport (app.rs:139)
    view_interval,  \* Context.view_interval (app.rs:116)
    delivered,      \* ghost: the tiles a get of the wrapper has returned
    cursor,         \* the drain's place in the queue while it holds the
                    \* queue's mutex; 0 when it does not hold it
    pushing,        \* the requests whose callback holds the queue's mutex
    probe           \* the value a specification of a pure operation works on

vars == <<ds, wr, passport, view_interval, delivered, cursor, pushing, probe>>
\* The mutex's holders change only in the steps of LockSpec below: in the
\* other specifications lock, work and unlock are one step.
lockvars == <<cursor, pushing>>

Init ==
    /\ ds = ds_new
    /\ wr = wr_new
    /\ passport = {}
    /\ view_interval = IntervalDefault
    /\ delivered = {}
    /\ cursor = 0
    /\ pushing = {}
    /\ probe = None

Alive == ~ds.panicked /\ ~wr.panicked
\* The bound on the requests of a behaviour.
Within(d) == Len(d.sent) <= MaxSubmit

\* ------------------------------------------------------------ transport
\* The backend's tile listing: the tiles overlapping the requested interval.
TileList(i) ==
    LET keep(t) == overlaps(t, i) IN SelectSeq(<<Tile1, Tile2>>, keep)

UtilPoint(time, util) == [time |-> time, util |-> util]
SummaryTile(e, t) ==
    [tile_id |-> t, utilization |-> <<UtilPoint(t.start, Len(e))>>]
SlotTile(e, t) == [tile_id |-> t, items |-> <<e>>]
SlotMetaTile(e, t) == [tile_id |-> t, items |-> <<<<e, "meta">>>>]

\* The bodies the backend may answer a request with.
Responses(work) ==
    LET pt == work.process_type
        e == work.entry_id
    IN CASE pt = "INTERVAL" -> {Json("Interval", i) : i \in BackendIntervals}
         [] pt = "REQUEST_TILES" ->
              {Json("Vec<TileID>", TileList(work.interval[1]))}
         [] pt = "FETCH_SUMMARY_TILE" ->
              {Json("SummaryTile", SummaryTile(e, work.tile_id[1]))}
         [] pt = "FETCH_SLOT_TILE" ->
              {Json("SlotTile", SlotTile(e, work.tile_id[1]))}
         [] pt = "FETCH_SLOT_META_TILE" ->
              {Json("SlotMetaTile", SlotMetaTile(e, work.tile_id[1]))}
         [] pt = "FETCH_SUMMARY_TILES" ->
              {Json("Vec<SummaryTile>",
                    [k \in 1..Len(work.tile_ids[1]) |->
                        SummaryTile(e, work.tile_ids[1][k])])}
         [] pt = "FETCH_SLOT_TILES" ->
              {Json("Vec<SlotTile>",
                    [k \in 1..Len(work.tile_ids[1]) |->
                        SlotTile(e, work.tile_ids[1][k])])}
         [] pt = "FETCH_SLOT_META_TILES" ->
              {Json("Vec<SlotMetaTile>",
                    [k \in 1..Len(work.tile_ids[1]) |->
                        SlotMetaTile(e, work.tile_ids[1][k])])}

\* The completion callback of queue_work (queueclient.rs:225-239): build the
\* Work from the request and the response text, lock the queue, push.
\* (push_work_retarget: a callback that files the answer under another entry.)
push_work_retarget(d, i, body) ==
    [d EXCEPT !.tstate[i] = "pushed",
              !.queue = Append(@, [d.sent[i] EXCEPT !.data = body,
                                                    !.entry_id = SummaryEntry])]
push_work(d, i, body) ==
    [d EXCEPT !.tstate[i] = "pushed",
              !.queue = Append(@, [d.sent[i] EXCEPT !.data = body])]

TransportPush ==
    \E i \in 1..Len(ds.sent) : \E body \in Responses(ds.sent[i]) :
        /\ Alive
        /\ ds.tstate[i] = "pending"
        /\ ds' = push_work(ds, i, body)
        /\ UNCHANGED <<wr, passport, view_interval, delivered, lockvars, probe>>

\* The request fails: result is an Err, result.unwrap() panics inside the
\* callback and nothing is pushed.
fail_work(d, i) == [d EXCEPT !.tstate[i] = "failed"]

TransportFail ==
    \E i \in 1..Len(ds.sent) :
        /\ Alive
        /\ ds.tstate[i] = "pending"
        /\ ds' = fail_work(ds, i)
        /\ UNCHANGED <<wr, passport, view_interval, delivered, lockvars, probe>>

\* --------------------------------------------- the call sites of app.rs
\* Window::content (app.rs:987): cx.view_interval = data_source.interval()
WindowInterval ==
    LET r == ds_interval(ds)
    IN /\ Alive
       /\ Within(r.d)
       /\ ds' = r.d
       /\ view_interval' = r.ret
       /\ UNCHANGED <<wr, passport, delivered, lockvars, probe>>

\* The interval an entry queries: config.interval.intersection(cx.view_interval)
QueryInterval == intersection(ConfigInterval, view_interval)

\* A guarded fetch: the passport check, the insert, and the wrapper's fetch.
\* fetch(s) is the wrapper operation the call site performs.
CallSite(stamp, fetched) ==
    /\ Alive
    /\ Within(fetched.d)
    /\ IF ShouldIssue(passport, stamp)
       THEN /\ passport' = Issue(passport, stamp)
            /\ ds' = fetched.d
            /\ wr' = fetched.w
       ELSE UNCHANGED <<passport, ds, wr>>
    /\ UNCHANGED <<view_interval, delivered, lockvars, probe>>

\* Summary::inflate and Slot::inflate, the fetch_tiles block
\* (app.rs:226-239, 426-439).  The get_tiles that follows it (app.rs:241,
\* 441) reads the list this block has created and changes nothing.
FetchTiles ==
    \E e \in Entries :
        CallSite(StampFetchTiles(e, QueryInterval),
                 w_fetch_tiles(Sys(ds, wr), e, QueryInterval))

\* Summary::inflate, the body of the loop over the tiles (app.rs:250-259)
FetchSummaryTile ==
    \E e \in SummaryEntries : \E t \in Tiles :
        /\ overlaps(t, QueryInterval)
        /\ CallSite(StampSummaryTile(e, t),
                    w_fetch_summary_tile(Sys(ds, wr), e, t))

\* Slot::inflate, the body of the loop over the tiles (app.rs:450-459)
FetchSlotTile ==
    \E e \in SlotEntries : \E t \in Tiles :
        /\ overlaps(t, QueryInterval)
        /\ CallSite(StampSlotTile(e, t),
                    w_fetch_slot_tile(Sys(ds, wr), e, t))

\* Slot::fetch_meta_tile (app.rs:472-480)
FetchSlotMetaTile ==
    \E e \in SlotEntries : \E t \in Tiles :
        CallSite(StampMetaTile(e, t),
                 w_fetch_slot_meta_tile(Sys(ds, wr), e, t))

\* A get of the wrapper, as the call sites perform it after the fetches.
GetCall(kind, r) ==
    /\ Alive
    /\ ds' = r.d.d
    /\ wr' = r.d.w
    /\ delivered' = delivered \cup {<<kind, t>> : t \in Elems(r.ret)}
    /\ UNCHANGED <<passport, view_interval, lockvars, probe>>

\* app.rs:262: get_summary_tiles
GetSummaryTiles ==
    GetCall("summary", w_get_summary_tiles(Sys(ds, wr)))

\* app.rs:462: get_slot_tiles
GetSlotTiles ==
    GetCall("slot", w_get_slot_tile(Sys(ds, wr)))

\* app.rs:484: get_slot_meta_tiles
GetSlotMetaTiles ==
    GetCall("meta", w_get_slot_meta_tile(Sys(ds, wr)))

Next ==
    \/ WindowInterval
    \/ FetchTiles
    \/ FetchSummaryTile
    \/ FetchSlotTile
    \/ FetchSlotMetaTile
    \/ GetSummaryTiles
    \/ GetSlotTiles
    \/ GetSlotMetaTiles
    \/ TransportPush
    \/ TransportFail

Spec == Init /\ [][Next]_vars

\* ------------------------------------------------- requests and stamps
\* The process types a call site guards with a stamp.
GatedKinds ==
    {"REQUEST_TILES", "FETCH_SUMMARY_TILE", "FETCH_SLOT_TILE",
     "FETCH_SLOT_META_TILE"}

\* The stamp of the call site that submitted a request.
StampOfWork(w) ==
    CASE w.process_type = "REQUEST_TILES" ->
           StampFetchTiles(w.entry_id, w.interval[1])
      [] w.process_type = "FETCH_SUMMARY_TILE" ->
           StampSummaryTile(w.entry_id, w.tile_id[1])
      [] w.process_type = "FETCH_SLOT_TILE" ->
           StampSlotTile(w.entry_id, w.tile_id[1])
      [] w.process_type = "FETCH_SLOT_META_TILE" ->
           StampMetaTile(w.entry_id, w.tile_id[1])
      [] OTHER -> [k |-> "ungated"]

Sent == 1..Len(ds.sent)
Gated(i) == ds.sent[i].process_type \in GatedKinds
\* The requests submitted under a stamp.
Requests(stamp) == {i \in Sent : StampOfWork(ds.sent[i]) = stamp}

\* The value the backend answers a gated request with.
Answer(w) == (CHOOSE b \in Responses(w) : TRUE).val

\* The data source's cache lookup for the request finds a value.
InCache(w) ==
    CASE w.process_type = "REQUEST_TILES" ->
           Get(ds.request_tiles_cache, <<w.entry_id, w.interval[1]>>) # None
      [] w.process_type = "FETCH_SUMMARY_TILE" ->
           Get(ds.fetch_summary_tile_cache, <<w.entry_id, w.tile_id[1]>>) # None
      [] w.process_type = "FETCH_SLOT_TILE" ->
           Get(ds.fetch_slot_tile_cache, <<w.entry_id, w.tile_id[1]>>) # None
      [] w.process_type = "FETCH_SLOT_META_TILE" ->
           Get(ds.fetch_slot_meta_tile_cache, <<w.entry_id, w.tile_id[1]>>) # None

\* The wrapper's next get returns the request's data.
InBuffer(w) ==
    CASE w.process_type = "REQUEST_TILES" ->
           /\ w.entry_id \in DOMAIN wr.tiles
           /\ Elems(Answer(w)) \subseteq Elems(wr.tiles[w.entry_id])
      [] w.process_type = "FETCH_SUMMARY_TILE" ->
           Contains(wr.summary_tiles, Answer(w))
      [] w.process_type = "FETCH_SLOT_TILE" ->
           Contains(wr.slot_tiles, Answer(w))
      [] w.process_type = "FETCH_SLOT_META_TILE" ->
           Contains(wr.slot_meta_tiles, Answer(w))

\* A get has returned the request's data already.
WasDelivered(w) ==
    CASE w.process_type = "REQUEST_TILES" -> FALSE
      [] w.process_type = "FETCH_SUMMARY_TILE" ->
           <<"summary", Answer(w)>> \in delivered
      [] w.process_type = "FETCH_SLOT_TILE" ->
           <<"slot", Answer(w)>> \in delivered
      [] w.process_type = "FETCH_SLOT_META_TILE" ->
           <<"meta", Answer(w)>> \in delivered

\* The consumer has, or on its next poll gets, the request's data.
Held(w) == InCache(w) \/ InBuffer(w) \/ WasDelivered(w)

\* C1 (Dedup).  However often a call site asks for the same (entry, subject,
\* kind), exactly one request reaches the transport: every stamp in the
\* passport has exactly one request, every gated request has its stamp in the
\* passport, and so a call that finds the stamp submits nothing.  A repeated
\* call is the CallSite step whose stamp is in the passport; it is enabled in
\* every state that holds the stamp, before and after the request resolves.
C1_Dedup ==
    /\ \A s \in passport : Cardinality(Requests(s)) = 1
    /\ \A i \in Sent : Gated(i) => StampOfWork(ds.sent[i]) \in passport

\* Requests of three kinds are with the transport, none resolved, each under
\* its stamp.
C1_Witness ==
    /\ Cardinality(passport) = 3
    /\ Cardinality({ds.sent[i].process_type : i \in Sent}) = 3
    /\ \A i \in Sent : Gated(i) /\ ds.tstate[i] = "pending"

\* The transport completed the request and a drain folded its item.
Drained(i) == ds.tstate[i] = "pushed" /\ ds.folds[i] >= 1

\* C2 (Eventual delivery), as the final result of the chain the claim names:
\* while the view interval is the one the session started with (it has not
\* changed), every guarded request the transport completed and a drain
\* folded is held by the consumer: the cache lookup finds it, or the next
\* get returns it, or a get has returned it.
C2_EventualDelivery ==
    view_interval = IntervalDefault =>
        \A i \in Sent : Gated(i) /\ Drained(i) => Held(ds.sent[i])

\* C5 (Ledger invalidated).  A step that changes the view interval leaves in
\* the passport only stamps that are scoped by an interval (the fetch_tiles
\* stamps hash the interval): the stamps of tile fetches made under the
\* earlier window are gone.
C5_LedgerInvalidated ==
    [][view_interval' # view_interval =>
          \A s \in passport' : s.k = "fetch_tiles"]_vars

\* What a consumer can observe of the data source: the caches and the
\* scalar interval.
Observed(d) ==
    <<d.interval, d.request_tiles_cache, d.fetch_summary_tile_cache,
      d.fetch_summary_tiles_cache, d.fetch_slot_tile_cache,
      d.fetch_slot_tiles_cache, d.fetch_slot_meta_tile_cache,
      d.fetch_slot_meta_tiles_cache>>

\* The queue had the transport completed its two results in the other order.
Swapped(d) == [d EXCEPT !.queue = <<d.queue[2], d.queue[1]>>]

\* C6 (Completion-order independence).  When the results of two outstanding
\* fetches wait in the queue, draining them leaves the same caches and the
\* same interval as draining them pushed in the other order.
C6_OrderIndependent ==
    Len(ds.queue) = 2 =>
        Observed(process_queue(ds)) = Observed(process_queue(Swapped(ds)))

\* The request is with the transport or its result waits in the queue.  A
\* request the transport failed counts: the consumer cannot tell it from a
\* pending one.
InFlight(i) ==
    \/ ds.tstate[i] \in {"pending", "failed"}
    \/ ds.tstate[i] = "pushed" /\ ds.folds[i] = 0

\* C8 (Per-request state machine).  A request whose fingerprint is in the
\* ledger is Requested (in flight) or Ready (the cache holds its value);
\* there is no state with the fingerprint in the ledger and the request
\* neither in flight nor in the cache.
C8_RequestedOrReady ==
    \A s \in passport : \A i \in Requests(s) :
        InFlight(i) \/ InCache(ds.sent[i])

\* C9 (Failed request).  A guarded request the transport failed keeps its
\* stamp in the passport, is the only request ever submitted under that
\* stamp, and its data is in no cache, in no buffer of the wrapper and was
\* returned by no get.
C9_FailedStaysRequested ==
    \A i \in Sent :
        Gated(i) /\ ds.tstate[i] = "failed" =>
            /\ StampOfWork(ds.sent[i]) \in passport
            /\ Requests(StampOfWork(ds.sent[i])) = {i}
            /\ ~Held(ds.sent[i])

\* A request failed first, and the call sites went on to submit two more
\* requests, which the transport answered.
C9_Witness ==
    /\ Len(ds.sent) = 3
    /\ Gated(1) /\ ds.tstate[1] = "failed"
    /\ Drained(2)
    /\ ds.tstate[3] = "pushed"

\* The arguments the operations of the data source are tried on.
TileLists == {<<Tile1>>, <<Tile2>>, <<Tile1, Tile2>>}

\* An operation drained first: it leaves the queue empty and returns what
\* it returns on the drained data source.
DrainedFirst(r, onDrained) == r.d.queue = <<>> /\ r.ret = onDrained.ret

\* C10 (Drain first).  Every public operation of the data source drains the
\* queue before its lookup: it leaves the queue empty, and it returns what it
\* returns when the queue has been drained just before the call.
C10_DrainFirst ==
    LET dq == process_queue(ds)
    IN /\ DrainedFirst(ds_interval(ds), ds_interval(dq))
       /\ DrainedFirst(ds_fetch_info(ds), ds_fetch_info(dq))
       /\ \A e \in Entries :
            /\ \A i \in Intervals :
                 DrainedFirst(request_tiles(ds, e, i), request_tiles(dq, e, i))
            /\ \A t \in Tiles :
                 /\ DrainedFirst(fetch_summary_tile(ds, e, t),
                                 fetch_summary_tile(dq, e, t))
                 /\ DrainedFirst(fetch_slot_tile(ds, e, t),
                                 fetch_slot_tile(dq, e, t))
                 /\ DrainedFirst(fetch_slot_meta_tile(ds, e, t),
                                 fetch_slot_meta_tile(dq, e, t))
            /\ \A ts \in TileLists :
                 /\ DrainedFirst(fetch_summary_tiles(ds, e, ts),
                                 fetch_summary_tiles(dq, e, ts))
                 /\ DrainedFirst(fetch_slot_tiles(ds, e, ts),
                                 fetch_slot_tiles(dq, e, ts))
                 /\ DrainedFirst(fetch_slot_meta_tiles(ds, e, ts),
                                 fetch_slot_meta_tiles(dq, e, ts))

\* ------------------------------------------------- the polling consumer
\* The same operations of the wrapper, called as a consumer without the
\* passport calls them: every frame again, with the interval and the tiles
\* the inflate functions compute (the query interval; the entry's listed
\* tiles that overlap it).
Roomy(w) ==
    /\ Len(w.summary_tiles) <= MaxBuffer
    /\ Len(w.slot_tiles) <= MaxBuffer
    /\ Len(w.slot_meta_tiles) <= MaxBuffer

\* let tiles = get_tiles(entry).filter(|t| t.0.overlaps(interval))
ListedTiles(e) ==
    IF e \in DOMAIN wr.tiles
    THEN {t \in Elems(wr.tiles[e]) : overlaps(t, QueryInterval)}
    ELSE {}

Poll(fetched) ==
    /\ Alive
    /\ Within(fetched.d)
    /\ Roomy(fetched.w)
    /\ ds' = fetched.d
    /\ wr' = fetched.w
    /\ UNCHANGED <<passport, view_interval, delivered, lockvars, probe>>

PollFetchInfo ==
    Poll(Sys(ds_fetch_info(ds).d, wr))

PollFetchTiles ==
    \E e \in Entries : Poll(w_fetch_tiles(Sys(ds, wr), e, QueryInterval))

PollFetchSummaryTile ==
    \E e \in SummaryEntries : \E t \in ListedTiles(e) :
        Poll(w_fetch_summary_tile(Sys(ds, wr), e, t))

PollFetchSlotTile ==
    \E e \in SlotEntries : \E t \in ListedTiles(e) :
        Poll(w_fetch_slot_tile(Sys(ds, wr), e, t))

PollFetchSlotMetaTile ==
    \E e \in SlotEntries : \E t \in ListedTiles(e) :
        Poll(w_fetch_slot_meta_tile(Sys(ds, wr), e, t))

\* get_tiles called for any entry, fetched before or not
PollGetTiles ==
    \E e \in Entries : Poll(w_get_tiles(Sys(ds, wr), e).d)

PollNext ==
    \/ WindowInterval
    \/ PollFetchInfo
    \/ PollFetchTiles
    \/ PollGetTiles
    \/ PollFetchSummaryTile
    \/ PollFetchSlotTile
    \/ PollFetchSlotMetaTile
    \/ GetSummaryTiles
    \/ GetSlotTiles
    \/ GetSlotMetaTiles
    \/ TransportPush
    \/ TransportFail

PollSpec == Init /\ [][PollNext]_vars

\* The tile-listing requests submitted for an entry.
ListingRequests(e) ==
    {i \in Sent : /\ ds.sent[i].process_type = "REQUEST_TILES"
                  /\ ds.sent[i].entry_id = e}

NoDuplicates(seq) ==
    \A i, j \in 1..Len(seq) : seq[i] = seq[j] => i = j

\* C3 (Tile-listing merge).  When two tile-listing fetches of an entry
\* against overlapping intervals have both resolved, get_tiles of the entry
\* returns the union of the tile ids of the two results, none of them twice.
C3_ListingUnion ==
    \A e \in Entries : \A i, j \in ListingRequests(e) :
        /\ i # j
        /\ overlaps(ds.sent[i].interval[1], ds.sent[j].interval[1])
        /\ Drained(i) /\ Drained(j)
        => LET got == w_get_tiles(Sys(ds, wr), e).ret
           IN /\ Elems(got) = Elems(Answer(ds.sent[i])) \cup Elems(Answer(ds.sent[j]))
              /\ NoDuplicates(got)

\* C4 (Listing follows the view).  The listing get_tiles returns for an
\* entry holds only tiles that overlap the interval the entry now queries
\* (the view interval, within the profile's); a tile that lies outside it
\* is not kept.
C4_ListingWithinView ==
    \A e \in DOMAIN wr.tiles :
        \A t \in Elems(w_get_tiles(Sys(ds, wr), e).ret) :
            overlaps(t, QueryInterval)

\* ------------------------------------------------ the queue's mutex
\* The steps of process_queue and of the completion callback, one lock
\* operation each.  cursor is the drain's place while it holds the mutex:
\* k >= 1 before the k-th item of the queue, IterDone when q.iter() is
\* exhausted and q.clear() is still to come, 0 when the drain does not hold
\* the mutex.
IterDone == -1

\* Mutex::lock returns when no other thread holds the guard.
\* (can_lock_always: a push or a drain that takes no lock.)
can_lock_always(c, p) == TRUE
can_lock(c, p) == c = 0 /\ p = {}

\* The bodies a completed request may carry: the backend's answers and a
\* body that is not the JSON the process type expects.
LockResponses(work) == Responses(work) \cup {Malformed}

\* let q = self.queue.lock().unwrap()
DrainLock ==
    /\ Alive
    /\ can_lock(cursor, pushing)
    /\ cursor' = 1
    /\ UNCHANGED <<ds, wr, passport, view_interval, delivered, pushing, probe>>

\* One iteration of for work in q.iter(); a failed unwrap kills the thread
\* with the guard held.
DrainStep ==
    /\ Alive
    /\ cursor >= 1 /\ cursor <= Len(ds.queue)
    /\ ds' = process_work(ds, ds.queue[cursor])
    /\ cursor' = IF ds'.panicked THEN cursor ELSE cursor + 1
    /\ UNCHANGED <<wr, passport, view_interval, delivered, pushing, probe>>

\* q.iter() returns None
DrainIterEnd ==
    /\ Alive
    /\ cursor >= 1 /\ cursor > Len(ds.queue)
    /\ cursor' = IterDone
    /\ UNCHANGED <<ds, wr, passport, view_interval, delivered, pushing, probe>>

\* The operations that start with process_queue, as the drain ends.
AfterDrain(d) ==
    {ds_interval(d).d, ds_fetch_info(d).d}
    \cup {fetch_slot_tile(d, SlotA, t).d : t \in Tiles}

\* q.clear(), the guard is dropped, and the rest of the operation that
\* called process_queue runs (it does not touch the queue).
DrainClear ==
    /\ Alive
    /\ cursor = IterDone
    /\ \E d \in AfterDrain([ds EXCEPT !.queue = <<>>]) :
           /\ Within(d)
           /\ ds' = d
    /\ cursor' = 0
    /\ UNCHANGED <<wr, passport, view_interval, delivered, pushing, probe>>

\* fetch_summary_tile: an operation that takes no lock
NoDrainOp ==
    /\ Alive
    /\ cursor = 0
    /\ \E t \in Tiles :
           /\ Within(fetch_summary_tile(ds, SummaryEntry, t).d)
           /\ ds' = fetch_summary_tile(ds, SummaryEntry, t).d
    /\ UNCHANGED <<wr, passport, view_interval, delivered, lockvars, probe>>

\* The callback: queue.lock().unwrap() on a mutex no panic has poisoned
CallbackLock ==
    \E i \in Sent :
        /\ ~ds.panicked
        /\ ds.tstate[i] = "pending" /\ i \notin pushing
        /\ can_lock(cursor, pushing)
        /\ pushing' = pushing \cup {i}
        /\ UNCHANGED <<ds, wr, passport, view_interval, delivered, cursor, probe>>

\* .push(work), and the guard is dropped
CallbackPush ==
    \E i \in pushing : \E body \in LockResponses(ds.sent[i]) :
        /\ ds' = push_work(ds, i, body)
        /\ pushing' = pushing \ {i}
        /\ UNCHANGED <<wr, passport, view_interval, delivered, cursor, probe>>

\* result.unwrap() panics in the callback, before the lock
CallbackFail ==
    \E i \in Sent :
        /\ ds.tstate[i] = "pending" /\ i \notin pushing
        /\ ds' = fail_work(ds, i)
        /\ UNCHANGED <<wr, passport, view_interval, delivered, lockvars, probe>>

LockNext ==
    \/ DrainLock
    \/ DrainStep
    \/ DrainIterEnd
    \/ DrainClear
    \/ NoDrainOp
    \/ CallbackLock
    \/ CallbackPush
    \/ CallbackFail

LockSpec == Init /\ [][LockNext]_vars

\* The first place of the queue the drain in progress has not folded.
Unfolded ==
    IF cursor = 0 THEN 1
    ELSE IF cursor = IterDone THEN Len(ds.queue) + 1
    ELSE cursor

\* The places of the queue that hold request i's item and are still to fold.
Waiting(i) == {k \in Unfolded..Len(ds.queue) : ds.queue[k].id = i}

\* At most one thread holds the queue's mutex.
MutualExclusion ==
    Cardinality(pushing) + (IF cursor = 0 THEN 0 ELSE 1) <= 1

\* An item the transport pushed waits in the queue or was folded, once in
\* all; a request whose callback has not pushed has no item anywhere.
FoldedOnce ==
    \A i \in Sent :
        Cardinality(Waiting(i)) + ds.folds[i]
            = IF ds.tstate[i] = "pushed" THEN 1 ELSE 0

\* C7 (Queue integrity).  Push and drain never hold the queue together;
\* every item a callback pushed is folded by exactly one drain or still
\* waits in the queue, never lost and never folded twice; and the step that
\* ends a drain leaves the queue empty.
C7_QueueIntegrity ==
    /\ [](MutualExclusion /\ FoldedOnce)
    /\ [][cursor # 0 /\ cursor' = 0 => ds'.queue = <<>>]_vars

\* The drain has folded two items and is about to clear the queue while a
\* third request's callback waits for the mutex.
C7_Witness ==
    /\ cursor = IterDone
    /\ Len(ds.queue) = 2
    /\ \E i \in Sent : ds.tstate[i] = "pending"

\* C11 (Get never panics).  No get of the wrapper panics, whatever entry it
\* is called for and whether or not that entry was ever fetched.
C11_GetNeverPanics == ~wr.panicked

\* C12 (Malformed response is recoverable).  A body that cannot be parsed
\* fails its own request only: the drain that meets it does not crash, it
\* goes on to fold the items behind it, and the queue stays usable.
C12_MalformedRecoverable ==
    /\ ~ds.panicked
    /\ cursor = IterDone =>
           \A k \in 1..Len(ds.queue) : ds.folds[ds.queue[k].id] = 1

\* C13 (Summary-tile lifecycle).  For every summary-tile request: while the
\* transport has not resolved it, get_summary_tiles does not return its
\* data; once the transport has pushed its completed item and no get has
\* returned the data yet, the next get_summary_tiles returns the item's
\* tile, and everything that get returns is the tile of a pushed request.
C13_SummaryLifecycle ==
    LET got == w_get_summary_tiles(Sys(ds, wr)).ret
        Summaries == {i \in Sent : ds.sent[i].process_type = "FETCH_SUMMARY_TILE"}
    IN /\ \A i \in Summaries :
              /\ ds.tstate[i] = "pending" => ~Contains(got, Answer(ds.sent[i]))
              /\ ds.tstate[i] = "pushed" /\ ~WasDelivered(ds.sent[i])
                     => Contains(got, Answer(ds.sent[i]))
       /\ \A t \in Elems(got) :
              \E i \in Summaries :
                  ds.tstate[i] = "pushed" /\ t = Answer(ds.sent[i])

Submitted(pt, e, t) ==
    \E i \in Sent :
        /\ ds.sent[i].process_type = pt
        /\ ds.sent[i].entry_id = e
        /\ ds.sent[i].tile_id = Some(t)

\* C15 (Fingerprints are per entry, subject and kind).  A call site is
\* suppressed only by a request for its own entry, subject and kind: when
\* the passport holds the stamp of a tile fetch of some kind for entry e and
\* tile t, that very request was submitted; a fetch for another entry, tile
\* or kind never puts it there.
C15_StampPerRequest ==
    \A t \in Tiles :
        /\ \A e \in SummaryEntries :
               ~ShouldIssue(passport, StampSummaryTile(e, t))
                   => Submitted("FETCH_SUMMARY_TILE", e, t)
        /\ \A e \in SlotEntries :
               /\ ~ShouldIssue(passport, StampSlotTile(e, t))
                      => Submitted("FETCH_SLOT_TILE", e, t)
               /\ ~ShouldIssue(passport, StampMetaTile(e, t))
                      => Submitted("FETCH_SLOT_META_TILE", e, t)

\* C16 (Interval fetch is deduplicated).  While an interval request is
\* outstanding, a further call of interval() submits no other: at most one
\* INTERVAL request is pending with the transport.
C16_IntervalDedup ==
    Cardinality({i \in Sent : /\ ds.sent[i].process_type = "INTERVAL"
                              /\ ds.tstate[i] = "pending"}) <= 1

\* C17 (Ledger grows).  A step that leaves the view interval as it was
\* removes no stamp from the passport: the passport after the step holds
\* every stamp it held before.
C17_LedgerGrows ==
    [][view_interval' = view_interval => passport \subseteq passport']_vars

\* Two stamps are in the passport, inserted one after the other under the
\* view interval the session started with, and a request has resolved.
C17_Witness ==
    /\ view_interval = IntervalDefault
    /\ Cardinality(passport) >= 2
    /\ \E i \in Sent : Gated(i) /\ ds.tstate[i] = "pushed"

\* The keys the data source's caches hold, by cache.
CachedKeys(d) ==
    <<DOMAIN d.request_tiles_cache,
      DOMAIN d.fetch_summary_tile_cache,
      DOMAIN d.fetch_slot_tile_cache,
      DOMAIN d.fetch_slot_meta_tile_cache,
      DOMAIN d.fetch_summary_tiles_cache,
      DOMAIN d.fetch_slot_tiles_cache,
      DOMAIN d.fetch_slot_meta_tiles_cache>>

\* C18 (Invalidation on change).  Cached data is dropped only when the
\* interval the entries query has changed: a step that changes neither the
\* profile's interval nor the view interval (and so no entry's effective
\* query interval) drops no key from any cache.
C18_InvalidateOnChange ==
    [][ds'.interval = ds.interval /\ view_interval' = view_interval
          => \A c \in 1..7 : CachedKeys(ds)[c] \subseteq CachedKeys(ds')[c]]_vars

\* The places of the queue that hold request i's completed item.
Items(i) == {k \in 1..Len(ds.queue) : ds.queue[k].id = i}

\* C19 (Completed item matches its request).  Every item on the shared queue
\* is the completed form of a submitted request: the same process type,
\* entry id, tile id, tile ids and interval, and only the data differs (it
\* is the response's text).  A request whose callback has pushed
\* has exactly one item, on the queue or folded by a drain; a request the
\* transport has not completed, or failed, has none.
C19_ItemMatchesRequest ==
    /\ \A k \in 1..Len(ds.queue) :
           LET w == ds.queue[k]
           IN /\ w.id \in Sent
              /\ [w EXCEPT !.data = EmptyBody] = ds.sent[w.id]
    /\ \A i \in Sent :
           Cardinality(Items(i)) + ds.folds[i]
               = IF ds.tstate[i] = "pushed" THEN 1 ELSE 0

\* Completed items of two kinds wait on the queue while an earlier item has
\* been folded.
C19_Witness ==
    /\ Cardinality({ds.queue[k].process_type : k \in 1..Len(ds.queue)}) >= 2
    /\ \E i \in Sent : ds.folds[i] = 1

\* ------------------------------------------------ folding into the caches
\* process_queue run over a queue that holds several completed items of the
\* per-tile kinds, among them items for the same (entry, tile) whose data
\* differ (the same tile answered at two times).  The drain is the one of
\* LockSpec, an item a step.
MaxFold == 3

\* The per-tile requests of one summary entry and one slot.
FoldWorks ==
    {Work(SummaryEntry, Some(t), None, None, EmptyBody, "FETCH_SUMMARY_TILE")
        : t \in Tiles}
    \cup {Work(SlotA, Some(t), None, None, EmptyBody, pt)
             : t \in Tiles, pt \in {"FETCH_SLOT_TILE", "FETCH_SLOT_META_TILE"}}

\* The bodies a request's tile was answered with: two contents per tile.
FoldBodies(work) ==
    LET t == work.tile_id[1]
    IN CASE work.process_type = "FETCH_SUMMARY_TILE" ->
              {Json("SummaryTile", SummaryTile(x, t)) : x \in {root, SummaryEntry}}
         [] work.process_type = "FETCH_SLOT_TILE" ->
              {Json("SlotTile", SlotTile(x, t)) : x \in SlotEntries}
         [] work.process_type = "FETCH_SLOT_META_TILE" ->
              {Json("SlotMetaTile", SlotMetaTile(x, t)) : x \in SlotEntries}

FoldItems ==
    UNION {{[w EXCEPT !.data = b] : b \in FoldBodies(w)} : w \in FoldWorks}

\* The data source after n requests were submitted and their callbacks have
\* pushed the items q, none drained yet.
FoldInit ==
    /\ \E n \in 2..MaxFold : \E q \in [1..n -> FoldItems] :
           ds = [ds_new EXCEPT
                    !.sent = [i \in 1..n |->
                                 [q[i] EXCEPT !.data = EmptyBody, !.id = i]],
                    !.tstate = [i \in 1..n |-> "pushed"],
                    !.folds = [i \in 1..n |-> 0],
                    !.queue = [i \in 1..n |-> [q[i] EXCEPT !.id = i]]]
    /\ wr = wr_new
    /\ passport = {}
    /\ view_interval = IntervalDefault
    /\ delivered = {}
    /\ cursor = 0
    /\ pushing = {}
    /\ probe = None

FoldNext ==
    \/ DrainLock
    \/ DrainStep
    \/ DrainIterEnd
    \/ DrainClear

FoldSpec == FoldInit /\ [][FoldNext]_vars

\* The cache a per-tile process type is folded into.
CacheOf(d, pt) ==
    CASE pt = "FETCH_SUMMARY_TILE" -> d.fetch_summary_tile_cache
      [] pt = "FETCH_SLOT_TILE" -> d.fetch_slot_tile_cache
      [] pt = "FETCH_SLOT_META_TILE" -> d.fetch_slot_meta_tile_cache

\* The key an item is cached under: its entry and the tile id of its data.
KeyOf(w) == <<w.entry_id, w.data.val.tile_id>>

\* C20 (Put is insert-or-replace).  The step that folds a per-tile item
\* leaves the item's value under the item's key, whatever the key held
\* before, and leaves every other key of that cache, and the other caches,
\* as they were.
C20_PutReplaces ==
    [][cursor >= 1 /\ cursor <= Len(ds.queue) /\ cursor' = cursor + 1
          => LET w == ds.queue[cursor]
                 old == CacheOf(ds, w.process_type)
                 new == CacheOf(ds', w.process_type)
             IN /\ Get(new, KeyOf(w)) = Some(w.data.val)
                /\ DOMAIN new = DOMAIN old \cup {KeyOf(w)}
                /\ \A k \in DOMAIN old \ {KeyOf(w)} : new[k] = old[k]
                /\ \A pt \in {"FETCH_SUMMARY_TILE", "FETCH_SLOT_TILE",
                              "FETCH_SLOT_META_TILE"} \ {w.process_type} :
                       CacheOf(ds', pt) = CacheOf(ds, pt)]_vars

\* Three items were folded: the first and the third for the same key with
\* different data, the second for another key of the same cache; the cache
\* holds the third's value under the shared key and the second's under its own.
C20_Witness ==
    /\ cursor = IterDone
    /\ Len(ds.queue) = 3
    /\ ds.queue[1].process_type = ds.queue[3].process_type
    /\ ds.queue[2].process_type = ds.queue[3].process_type
    /\ KeyOf(ds.queue[1]) = KeyOf(ds.queue[3])
    /\ KeyOf(ds.queue[2]) # KeyOf(ds.queue[3])
    /\ ds.queue[1].data # ds.queue[3].data
    /\ Get(CacheOf(ds, ds.queue[3].process_type), KeyOf(ds.queue[3]))
           = Some(ds.queue[3].data.val)
    /\ Get(CacheOf(ds, ds.queue[2].process_type), KeyOf(ds.queue[2]))
           = Some(ds.queue[2].data.val)

\* C21 (No cancellation).  The drain that folds the completed item of a
\* guarded request leaves the result in the cache, where the request's
\* lookup finds it, whatever happened to the view interval while the request
\* was outstanding.
C21_FoldedIsCached ==
    [][\A i \in Sent :
          Gated(i) /\ ds.folds[i] = 0 /\ ds'.folds[i] = 1
              => InCache(ds.sent[i])']_vars

\* C22 (An unresolved request blocks nothing).  While one guarded request
\* stays outstanding, every other guarded request that the transport
\* completed and a drain folded is available to its entry: the cache lookup
\* finds it, or the next get returns it, or a get has returned it.
C22_OthersAvailable ==
    \A i, j \in Sent :
        /\ i # j
        /\ Gated(i) /\ Gated(j)
        /\ ds.tstate[j] = "pending"
        /\ Drained(i)
        => Held(ds.sent[i])

MaxTime == 3

\* The intervals with start <= stop.
ValidIntervals ==
    UNION {{Interval(s, e) : e \in s..MaxTime} : s \in 0..MaxTime}

IntervalInit ==
    /\ ds = ds_new
    /\ wr = wr_new
    /\ passport = {}
    /\ view_interval = IntervalDefault
    /\ delivered = {}
    /\ cursor = 0
    /\ pushing = {}
    /\ probe \in [a : ValidIntervals, b : ValidIntervals,
                  x : {None}, kept : {None}]

\* let interval = a.intersection(b)
Intersect ==
    /\ probe.x = None
    /\ probe' = [probe EXCEPT !.x = Some(intersection(probe.a, probe.b))]
    /\ UNCHANGED <<ds, wr, passport, view_interval, delivered, lockvars>>

\* (FilterTilesAll: the filter left out, every tile is kept.)
FilterTilesAll ==
    /\ probe.x # None
    /\ probe.kept = None
    /\ probe' = [probe EXCEPT !.kept = Some(ValidIntervals)]
    /\ UNCHANGED <<ds, wr, passport, view_interval, delivered, lockvars>>
\* tiles.into_iter().filter(|t| t.0.overlaps(interval)), the tiles being
\* all the valid intervals
FilterTiles ==
    /\ probe.x # None
    /\ probe.kept = None
    /\ probe' = [probe EXCEPT
                    !.kept = Some({t \in ValidIntervals : overlaps(t, probe.x[1])})]
    /\ UNCHANGED <<ds, wr, passport, view_interval, delivered, lockvars>>

IntervalNext ==
    \/ Intersect
    \/ FilterTiles

IntervalSpec == IntervalInit /\ [][IntervalNext]_vars

\* The time points of a closed interval.
Points(i) == {t \in 0..MaxTime : i.start <= t /\ t <= i.stop}

MaxLevel == 4
MaxIndex == 2

\* data.rs is not part of the sources; the three operations are modelled
\* from the specification (section 4.1).  A summary index is no slot.
level(e) == Len(e)
slot_index(e, k) ==
    IF k >= 0 /\ k < Len(e) /\ e[k + 1] >= 0 THEN Some(e[k + 1]) ELSE None
last_slot_index(e) ==
    IF Len(e) >= 1 /\ e[Len(e)] >= 0 THEN Some(e[Len(e)]) ELSE None

\* (highlight_skip_last: a loop that stops one level early.)
RECURSIVE highlight_skip_last(_, _, _, _)
highlight_skip_last(entry_id, i, entry, seen) ==
    IF i >= level(entry_id) - 1 THEN [entry |-> entry, seen |-> seen]
    ELSE LET depth == slot_index(entry_id, i)
         IN IF depth # None
            THEN highlight_skip_last(entry_id, i + 1, child(entry, depth[1]),
                                     seen \cup {child(entry, depth[1])})
            ELSE highlight_skip_last(entry_id, i + 1, entry, seen)
\* while i < entry_id.level() { if let Some(depth) = entry_id.slot_index(i)
\*   { entry = entry.child(depth); entries_highlighted.insert(entry) } i += 1 }
RECURSIVE highlight(_, _, _, _)
highlight(entry_id, i, entry, seen) ==
    IF i >= level(entry_id) THEN [entry |-> entry, seen |-> seen]
    ELSE LET depth == slot_index(entry_id, i)
         IN IF depth # None
            THEN highlight(entry_id, i + 1, child(entry, depth[1]),
                           seen \cup {child(entry, depth[1])})
            ELSE highlight(entry_id, i + 1, entry, seen)

\* probe: the entry built so far, the indices child was called with, and
\* what add_highlighted_item made of the entry.
PathInit ==
    /\ ds = ds_new
    /\ wr = wr_new
    /\ passport = {}
    /\ view_interval = IntervalDefault
    /\ delivered = {}
    /\ cursor = 0
    /\ pushing = {}
    /\ probe = [entry |-> root, calls |-> <<>>, walked |-> None]

\* entry = entry.child(i)
Child ==
    \E i \in 0..MaxIndex :
        /\ probe.walked = None
        /\ Len(probe.calls) < MaxLevel
        /\ probe' = [probe EXCEPT !.entry = child(@, i),
                                  !.calls = Append(@, i)]
        /\ UNCHANGED <<ds, wr, passport, view_interval, delivered, lockvars>>

\* SelectedState::add_highlighted_item for an item of the entry
AddHighlightedItem ==
    /\ probe.walked = None
    /\ probe' = [probe EXCEPT
                    !.walked = Some(highlight(probe.entry, 0, root, {}))]
    /\ UNCHANGED <<ds, wr, passport, view_interval, delivered, lockvars>>

PathNext ==
    \/ Child
    \/ AddHighlightedItem

PathSpec == PathInit /\ [][PathNext]_vars

LastInterval ==
    LET ivs == {k \in 1..Len(ds.queue) : ds.queue[k].process_type = "INTERVAL"}
    IN IF ivs = {} THEN 0 ELSE CHOOSE k \in ivs : \A j \in ivs : j <= k

\* The items of a process type behind the last INTERVAL item.
After(pt) ==
    {k \in (LastInterval + 1)..Len(ds.queue) : ds.queue[k].process_type = pt}

\* Each item of the process type behind the last INTERVAL item is in the
\* cache under its key, and the cache holds no other key.
HoldsAfter(cache, pt) ==
    /\ DOMAIN cache = {KeyOf(ds.queue[k]) : k \in After(pt)}
    /\ \A k \in After(pt) : cache[KeyOf(ds.queue[k])] = ds.queue[k].data.val

\* C26 (Interval resets the caches).  One pass of process_queue over a
\* queue that holds an INTERVAL item leaves the interval of the last such
\* item stored, equal to the one stored before or not, and in the caches
\* exactly the results of the items behind it: what the caches held before
\* the pass and what the pass folded ahead of that item is gone.  A pass
\* over a queue with no INTERVAL item leaves the stored interval alone.
C26_IntervalResets ==
    LET q == ds.queue
        r == process_queue(ds)
        last == LastInterval
    IN ~ds.panicked =>
        /\ r.interval = IF last = 0 THEN ds.interval ELSE q[last].data.val
        /\ last # 0 =>
            /\ DOMAIN r.request_tiles_cache =
                   {<<q[k].entry_id, q[k].interval[1]>> : k \in After("REQUEST_TILES")}
            /\ \A k \in After("REQUEST_TILES") :
                   r.request_tiles_cache[<<q[k].entry_id, q[k].interval[1]>>]
                       = q[k].data.val
            /\ HoldsAfter(r.fetch_summary_tile_cache, "FETCH_SUMMARY_TILE")
            /\ HoldsAfter(r.fetch_slot_tile_cache, "FETCH_SLOT_TILE")
            /\ HoldsAfter(r.fetch_slot_meta_tile_cache, "FETCH_SLOT_META_TILE")
            /\ r.fetch_summary_tiles_cache = EmptyMap
            /\ r.fetch_slot_tiles_cache = EmptyMap
            /\ r.fetch_slot_meta_tiles_cache = EmptyMap

\* The queue holds a completed tile listing and behind it an INTERVAL item
\* with the interval that is stored already.
C26_Witness ==
    /\ Len(ds.queue) = 2
    /\ ds.queue[1].process_type = "REQUEST_TILES"
    /\ ds.queue[2].process_type = "INTERVAL"
    /\ ds.queue[2].data.val = ds.interval

\* What the get a slot performs returns (app.rs:462, 484): the wrapper's
\* gets take no entry (deferred_data.rs:82, 95), so the slot's entry id does
\* not reach them.
SlotTilesFor(e) == w_get_slot_tile(Sys(ds, wr)).ret
SlotMetaTilesFor(e) == w_get_slot_meta_tile(Sys(ds, wr)).ret

MaxFrames == 2

\* What inflate threads through its statements: the wrapper with the data
\* source, and the passport.
Cx(s, p) == [s |-> s, p |-> p]

\* app.rs:236-239, 436-439
guarded_fetch_tiles(st, e, interval) ==
    LET stamp == StampFetchTiles(e, interval)
    IN IF ShouldIssue(st.p, stamp)
       THEN Cx(w_fetch_tiles(st.s, e, interval), Issue(st.p, stamp))
       ELSE st

\* The loop over the tiles of inflate (app.rs:249-260, 449-460); kind names
\* the entity, "summary" or "slot".
RECURSIVE fetch_each(_, _, _, _)
fetch_each(st, kind, e, tiles) ==
    IF tiles = <<>> THEN st
    ELSE LET t == Head(tiles)
             stamp == IF kind = "summary" THEN StampSummaryTile(e, t)
                                          ELSE StampSlotTile(e, t)
             fetched == IF kind = "summary"
                        THEN w_fetch_summary_tile(st.s, e, t)
                        ELSE w_fetch_slot_tile(st.s, e, t)
             st1 == IF ShouldIssue(st.p, stamp)
                    THEN Cx(fetched, Issue(st.p, stamp))
                    ELSE st
         IN fetch_each(st1, kind, e, Tail(tiles))

\* self.utilization.extend(summary_tile.utilization) for each tile returned
RECURSIVE extend_all(_, _)
extend_all(utilization, summary_tiles) ==
    IF summary_tiles = <<>> THEN utilization
    ELSE extend_all(utilization \o Head(summary_tiles).utilization,
                    Tail(summary_tiles))

\* The tiles of the listing inflate goes on with (app.rs:241-247, 441-447).
listed_tiles(st, e, interval) ==
    LET g == w_get_tiles(st.s, e)
        keep(t) == overlaps(t, interval)
    IN [st |-> Cx(g.d, st.p), tiles |-> SelectSeq(g.ret, keep)]

CountUp(n) == IF n < MaxFrames THEN n + 1 ELSE n

\* The fetch_tiles block and the listing of inflate (app.rs:226-247, 426-447)
inflate_listing(st, e, interval) ==
    listed_tiles(guarded_fetch_tiles(st, e, interval), e, interval)

\* ... and the loop over the listing l (app.rs:249-260, 449-460)
inflate_tiles(l, kind, e) == fetch_each(l.st, kind, e, l.tiles)

\* The end of Summary::inflate (app.rs:262-264): got is what
\* get_summary_tiles returned.
summary_extend(sm, got, p) ==
    [ent |-> [sm EXCEPT !.is_inflating = TRUE,
                        !.inflations = CountUp(@),
                        !.utilization = extend_all(@, got.ret)],
     st |-> Cx(got.d, p)]

summary_take(sm, st) == summary_extend(sm, w_get_summary_tiles(st.s), st.p)

\* Summary::inflate (app.rs:224-265)
Summary_inflate(sm, st, e, view) ==
    summary_take(sm,
        inflate_tiles(
            inflate_listing(st, e, intersection(ConfigInterval, view)),
            "summary", e))

\* Summary::content, up to the end of inflate (app.rs:309-318)
Summary_content(sm, st, e, view) ==
    LET seen == IF sm.last_view_interval # Some(view)
                THEN [sm EXCEPT !.utilization = <<>>, !.inflations = 0]
                ELSE sm
        cur == [seen EXCEPT !.last_view_interval = Some(view)]
    IN IF cur.utilization = <<>> \/ cur.is_inflating
       THEN Summary_inflate(cur, st, e, view)
       ELSE [ent |-> cur, st |-> st]

\* The end of Slot::inflate (app.rs:462-464): got is what get_slot_tiles
\* returned.
slot_push(sl, got, p) ==
    [ent |-> [sl EXCEPT !.inflations = CountUp(@),
                        !.tiles = @ \o got.ret],
     st |-> Cx(got.d, p)]

slot_take(sl, st) == slot_push(sl, w_get_slot_tile(st.s), st.p)

\* Slot::inflate (app.rs:424-465)
Slot_inflate(sl, st, e, view) ==
    slot_take(sl,
        inflate_tiles(
            inflate_listing(st, e, intersection(ConfigInterval, view)),
            "slot", e))

\* Slot::content, up to the end of inflate (app.rs:746-756)
Slot_content(sl, st, e, view) ==
    IF ~sl.expanded THEN [ent |-> sl, st |-> st]
    ELSE LET seen == IF sl.last_view_interval # Some(view)
                     THEN [sl EXCEPT !.tiles = <<>>, !.inflations = 0]
                     ELSE sl
             cur == [seen EXCEPT !.last_view_interval = Some(view)]
         IN IF cur.tiles = <<>>
            THEN Slot_inflate(cur, st, e, view)
            ELSE [ent |-> cur, st |-> st]

\* Summary::new and Slot::new as Panel::new calls them (app.rs:276-282,
\* 695-705)
FrameInit ==
    /\ ds = ds_new
    /\ wr = wr_new
    /\ passport = {}
    /\ view_interval = IntervalDefault
    /\ delivered = {}
    /\ cursor = 0
    /\ pushing = {}
    /\ probe = [summary |-> [e \in SummaryEntries |->
                                [utilization |-> <<>>,
                                 is_inflating |-> FALSE,
                                 last_view_interval |-> None,
                                 inflations |-> 0]],
                slots |-> [e \in SlotEntries |->
                                [tiles |-> <<>>,
                                 last_view_interval |-> None,
                                 expanded |-> TRUE,
                                 inflations |-> 0]],
                tick |-> 0,
                who |-> root]

\* One content() step with the result r: the entity, the wrapper, the data
\* source and the passport after it.
FrameStep(r, kind, e) ==
    /\ Alive
    /\ Within(r.st.s.d)
    /\ ds' = r.st.s.d
    /\ wr' = r.st.s.w
    /\ passport' = r.st.p
    /\ probe' = IF kind = "summary"
                THEN [probe EXCEPT !.summary[e] = r.ent,
                                   !.tick = 1 - @, !.who = e]
                ELSE [probe EXCEPT !.slots[e] = r.ent,
                                   !.tick = 1 - @, !.who = e]
    /\ UNCHANGED <<view_interval, delivered, lockvars>>

SummaryContent ==
    \E e \in SummaryEntries :
        FrameStep(Summary_content(probe.summary[e],
                                  Cx(Sys(ds, wr), passport), e, view_interval),
                  "summary", e)

SlotContent ==
    \E e \in SlotEntries :
        FrameStep(Slot_content(probe.slots[e],
                               Cx(Sys(ds, wr), passport), e, view_interval),
                  "slot", e)

\* Slot::toggle_expanded (app.rs:780-782)
ToggleExpanded ==
    \E e \in SlotEntries :
        /\ Alive
        /\ probe' = [probe EXCEPT !.slots[e].expanded = ~@]
        /\ UNCHANGED <<ds, wr, passport, view_interval, delivered, lockvars>>

FrameNext ==
    \/ WindowInterval
    \/ SummaryContent
    \/ SlotContent
    \/ ToggleExpanded
    \/ TransportPush
    \/ TransportFail

FrameSpec == FrameInit /\ [][FrameNext]_vars

\* The slot shows the tile.
Shown(e, t) == \E x \in Elems(probe.slots[e].tiles) : x.tile_id = t

\* The listing of the slot for the interval it queries now was completed,
\* folded, and is in the cache.
ListingReady(e, i) ==
    /\ ds.sent[i].process_type = "REQUEST_TILES"
    /\ ds.sent[i].entry_id = e
    /\ ds.sent[i].interval = Some(QueryInterval)
    /\ Drained(i)
    /\ InCache(ds.sent[i])

\* C28 (A slot fills up).  With the view interval unchanged, a content()
\* step of an expanded slot that finds its tile listing completed brings the
\* slot forward on every tile of the listing: after the step the slot shows
\* the tile or the tile's fetch is with the transport.  (A slot that never
\* gets that far never shows all of its tiles.)
C28_SlotFillsUp ==
    [][\A e \in SlotEntries : \A i \in Sent :
          /\ probe'.tick # probe.tick /\ probe'.who = e
          /\ probe.slots[e].expanded
          /\ probe.slots[e].last_view_interval = Some(view_interval)
          /\ ListingReady(e, i)
          => \A t \in Elems(TileList(QueryInterval)) :
                 Shown(e, t)' \/ Submitted("FETCH_SLOT_TILE", e, t)']_vars

PerTileKinds == {"FETCH_SUMMARY_TILE", "FETCH_SLOT_TILE", "FETCH_SLOT_META_TILE"}

\* The bodies the backend may answer a single-tile request with.
AnswerBodies(work) ==
    LET e == work.entry_id
    IN CASE work.process_type = "FETCH_SUMMARY_TILE" ->
              {Json("SummaryTile", SummaryTile(e, t)) : t \in Tiles}
         [] work.process_type = "FETCH_SLOT_TILE" ->
              {Json("SlotTile", SlotTile(e, t)) : t \in Tiles}
         [] work.process_type = "FETCH_SLOT_META_TILE" ->
              {Json("SlotMetaTile", SlotMetaTile(e, t)) : t \in Tiles}

\* fetch_summary_tile, fetch_slot_tile or fetch_slot_meta_tile, by the
\* process type it submits.
fetch_one(d, pt, e, t) ==
    CASE pt = "FETCH_SUMMARY_TILE" -> fetch_summary_tile(d, e, t)
      [] pt = "FETCH_SLOT_TILE" -> fetch_slot_tile(d, e, t)
      [] pt = "FETCH_SLOT_META_TILE" -> fetch_slot_meta_tile(d, e, t)

AnswerInit ==
    /\ ds = ds_new
    /\ wr = wr_new
    /\ passport = {}
    /\ view_interval = IntervalDefault
    /\ delivered = {}
    /\ cursor = 0
    /\ pushing = {}
    /\ probe = [call |-> None, ret |-> None, tick |-> 0]

\* A call of one of the three fetches (queueclient.rs:295-315, 345-364,
\* 394-419).
AnswerFetch ==
    \E pt \in PerTileKinds : \E t \in Tiles :
        LET e == IF pt = "FETCH_SUMMARY_TILE" THEN SummaryEntry ELSE SlotA
            r == fetch_one(ds, pt, e, t)
        IN /\ Alive
           /\ Within(r.d)
           /\ ds' = r.d
           /\ probe' = [call |-> Some(<<pt, e, t>>), ret |-> r.ret,
                        tick |-> 1 - probe.tick]
           /\ UNCHANGED <<wr, passport, view_interval, delivered, lockvars>>

\* The completion callback with the backend's tile (queueclient.rs:225-239).
AnswerPush ==
    \E i \in 1..Len(ds.sent) : \E body \in AnswerBodies(ds.sent[i]) :
        /\ Alive
        /\ ds.tstate[i] = "pending"
        /\ ds' = push_work(ds, i, body)
        /\ UNCHANGED <<wr, passport, view_interval, delivered, lockvars, probe>>

\* A drain by an operation that does nothing else (fetch_info,
\* queueclient.rs:258-262).
AnswerDrain ==
    /\ Alive
    /\ ds' = ds_fetch_info(ds).d
    /\ UNCHANGED <<wr, passport, view_interval, delivered, lockvars, probe>>

AnswerNext ==
    \/ AnswerFetch
    \/ AnswerPush
    \/ AnswerDrain

AnswerSpec == AnswerInit /\ [][AnswerNext]_vars

\* C30 (Cache hit after resolution).  When the result of a single-tile
\* request for (e, t) was completed and drained (no INTERVAL result is
\* drained in these behaviours), the same call for (e, t) returns Some value
\* and submits no work, whichever tile id the backend put into the tile it
\* answered with.
C30_HitAfterResolution ==
    [][\A i \in Sent :
          /\ probe'.tick # probe.tick
          /\ probe'.call = Some(<<ds.sent[i].process_type, ds.sent[i].entry_id,
                                  ds.sent[i].tile_id[1]>>)
          /\ Drained(i)
          => /\ probe'.ret # None
             /\ Len(ds'.sent) = Len(ds.sent)]_vars

\* ------------------------------------------------- client and server paths
\* The path queue_work posts a work item to (queueclient.rs:154-173).
url_path(pt) ==
    CASE pt = "FETCH_SLOT_META_TILE" -> "/slot_meta_tile"
      [] pt = "FETCH_SLOT_TILE" -> "/slot_tile"
      [] pt = "REQUEST_TILES" -> "/tiles"
      [] pt = "FETCH_SUMMARY_TILE" -> "/summary"
      [] pt = "FETCH_SLOT_META_TILES" -> "/slot_meta_tiles"
      [] pt = "FETCH_SLOT_TILES" -> "/slot_tiles"
      [] pt = "FETCH_SUMMARY_TILES" -> "/summaries"
      [] pt = "INTERVAL" -> "/interval"

\* The routes create_server registers, all for POST (server.rs:146-156).
Routes ==
    {"/entry", "/info", "/interval", "/tiles", "/slot_meta_tile",
     "/slot_tile", "/summary_tile", "/init"}

\* C31 (Client and server agree on the endpoints).  Every request the queue
\* client has handed to the transport was posted to a path the server
\* registers, so none of them resolves to a not-found response.
C31_EndpointsAgree ==
    \A i \in Sent : url_path(ds.sent[i].process_type) \in Routes

\* ----------------------------------------------------------- ZoomSpec
\* The zoom history of ProfApp (app.rs:99-104, 1178-1213).  probe holds
\* cx.zoom_state and cx.total_interval; view_interval is cx.view_interval.
\*   levels, index   ZoomState (index counts from 0, as in the source)
\*   panicked        an operation indexed levels out of range or underflowed
\*   changed         ghost: the last step was one of the three operations
\*                   and it changed the view
\*   op, arg, tick   ghost: the operation of the last step and its
\*                   argument; tick flips at every step
\*   before          ghost: the view interval and the index before the last
\*                   step, when that step was an undo_zoom with index > 0
MaxZoom == 3

ZoomIntervals == {IntervalDefault, IntervalA, IntervalB, ConfigInterval}

Zs(view, levels, index, panicked) ==
    [view |-> view, levels |-> levels, index |-> index, panicked |-> panicked]

\* Vec::truncate
truncate(v, n) == IF n < Len(v) THEN SubSeq(v, 1, n) ELSE v

\* ProfApp::zoom (app.rs:1178-1191)
zoom(z, interval) ==
    IF z.view = interval THEN z
    ELSE LET levels == Append(truncate(z.levels, z.index + 1), interval)
         IN Zs(interval, levels, Len(levels) - 1, z.panicked)

\* ProfApp::undo_zoom (app.rs:1193-1202)
undo_zoom(z) ==
    IF z.index = 0 THEN z
    ELSE IF z.index - 1 < Len(z.levels)
         THEN Zs(z.levels[z.index], z.levels, z.index - 1, z.panicked)
         ELSE Zs(z.view, z.levels, z.index - 1, TRUE)

\* ProfApp::redo_zoom (app.rs:1204-1213): the states it may end in.  On an
\* empty levels, levels.len() - 1 underflows: a build with overflow checks
\* panics there; a build without them wraps, passes the test, increments
\* index and panics on levels[index].
redo_zoom(z) ==
    IF z.levels = <<>>
    THEN {Zs(z.view, z.levels, z.index, TRUE),
          Zs(z.view, z.levels, z.index + 1, TRUE)}
    ELSE IF z.index = Len(z.levels) - 1 THEN {z}
    ELSE IF z.index + 1 < Len(z.levels)
         THEN {Zs(z.levels[z.index + 2], z.levels, z.index + 1, z.panicked)}
         ELSE {Zs(z.view, z.levels, z.index + 1, TRUE)}

\* cx as the three operations see it.
ZoomCx == Zs(view_interval, probe.levels, probe.index, probe.panicked)

\* ProfApp::new (app.rs:1143-1161): the default Context, then
\* zoom(cx, window.config.interval); the interval is the Initializer's.
ZoomInit ==
    /\ ds = ds_new
    /\ wr = wr_new
    /\ passport = {}
    /\ delivered = {}
    /\ cursor = 0
    /\ pushing = {}
    /\ \E total \in {IntervalDefault, ConfigInterval} :
          LET z == zoom(Zs(IntervalDefault, <<>>, 0, FALSE), total)
          IN /\ view_interval = z.view
             /\ probe = [levels |-> z.levels, index |-> z.index,
                         panicked |-> FALSE, changed |-> FALSE,
                         total_interval |-> total,
                         op |-> "new", arg |-> None, tick |-> 0,
                         before |-> None]

\* One of the three operations, op with the argument arg, ended in z.
ZoomStep(z, op, arg) ==
    /\ ~probe.panicked
    /\ Len(z.levels) <= MaxZoom
    /\ view_interval' = z.view
    /\ probe' = [probe EXCEPT
                    !.levels = z.levels, !.index = z.index,
                    !.panicked = z.panicked,
                    !.changed = (z.view # view_interval),
                    !.op = op, !.arg = arg, !.tick = 1 - @,
                    !.before = IF op = "undo_zoom" /\ probe.index > 0
                               THEN Some([view |-> view_interval,
                                          index |-> probe.index])
                               ELSE None]
    /\ UNCHANGED <<ds, wr, passport, delivered, lockvars>>

\* The callers of zoom: a double click on an item, the interval controls,
\* a drag, Reset Zoom (app.rs:568, 1085, 1109, 1133, 1240, 1293, 1416)
Zoom == \E i \in ZoomIntervals : ZoomStep(zoom(ZoomCx, i), "zoom", Some(i))

\* ArrowLeft (app.rs:1238)
UndoZoom == ZoomStep(undo_zoom(ZoomCx), "undo_zoom", None)

\* ArrowRight (app.rs:1239)
RedoZoom == \E z \in redo_zoom(ZoomCx) : ZoomStep(z, "redo_zoom", None)

\* Window::content (app.rs:987): cx.view_interval = data_source.interval(),
\* in every frame, whatever the zoom history holds.
ZoomFrame ==
    /\ ~probe.panicked
    /\ \E i \in Intervals : view_interval' = i
    /\ probe' = [probe EXCEPT !.changed = FALSE, !.op = "frame",
                              !.arg = None, !.tick = 1 - @, !.before = None]
    /\ UNCHANGED <<ds, wr, passport, delivered, lockvars>>

ZoomNext ==
    \/ Zoom
    \/ UndoZoom
    \/ RedoZoom
    \/ ZoomFrame

ZoomSpec == ZoomInit /\ [][ZoomNext]_vars

\* C32 (The zoom index is valid).  No zoom, undo_zoom or redo_zoom indexes
\* levels out of range or underflows; whenever levels is non-empty, index is
\* below its length; and after one of the three operations has changed the
\* view, the view interval is levels[index].
C32_ZoomIndexValid ==
    /\ ~probe.panicked
    /\ probe.levels # <<>> => probe.index < Len(probe.levels)
    /\ probe.changed =>
          /\ probe.index < Len(probe.levels)
          /\ view_interval = probe.levels[probe.index + 1]

\* A step of the operation op.
ZoomOp(op) == probe'.tick # probe.tick /\ probe'.op = op

\* C33 (Zoom history semantics).  zoom(i) with i other than the current
\* view drops the entries after the current index, appends i and makes it
\* current; zoom(i) with i the current view changes nothing; and a
\* redo_zoom that follows an undo_zoom which was possible restores the view
\* interval and the index that held before the undo.
C33_ZoomHistory ==
    [][/\ ZoomOp("zoom") /\ probe'.arg # Some(view_interval)
          => /\ probe'.levels =
                   Append(truncate(probe.levels, probe.index + 1),
                          probe'.arg[1])
             /\ probe'.index = Len(probe'.levels) - 1
             /\ view_interval' = probe'.arg[1]
       /\ ZoomOp("zoom") /\ probe'.arg = Some(view_interval)
          => /\ probe'.levels = probe.levels
             /\ probe'.index = probe.index
             /\ view_interval' = view_interval
       /\ ZoomOp("redo_zoom") /\ probe.before # None
          => /\ view_interval' = probe.before[1].view
             /\ probe'.index = probe.before[1].index]_vars

\* ----------------------------------------------------------- NodeSpec
\* Window::node_selection (app.rs:1008-1021) over Config.min_node and
\* Config.max_node (app.rs:958-968).  probe holds
\*   slots               the number of slots of the root panel, one per node
\*   min_node, max_node  Config
\*   stepped             ghost: node_selection has run
MaxNodes == 8

\* EntryInfo::nodes() of the root panel with n node slots: the node count of
\* the Initializer.
nodes(n) == n

\* self.panel.slots.len().saturating_sub(1)
slots_total(n) == IF n = 0 THEN 0 ELSE n - 1

\* ui.add(Slider::new(value, 0..=total)): the values the variable may hold
\* afterwards.  The user drags the slider to a value of its range, or does
\* not touch it and the variable keeps its value.
Slider(value, total) == {value} \cup 0..total

\* if *min_node > *max_node { *max_node = *min_node; }  (app.rs:1014-1016)
clamp_up(min_node, max_node) ==
    IF min_node > max_node THEN min_node ELSE max_node

\* if *min_node > *max_node { *min_node = *max_node; }  (app.rs:1018-1020)
clamp_down(min_node, max_node) ==
    IF min_node > max_node THEN max_node ELSE min_node

\* Config::new (app.rs:958-968) for a profile of 0..MaxNodes nodes.
NodeInit ==
    /\ ds = ds_new
    /\ wr = wr_new
    /\ passport = {}
    /\ view_interval = IntervalDefault
    /\ delivered = {}
    /\ cursor = 0
    /\ pushing = {}
    /\ \E n \in 0..MaxNodes :
          probe = [slots |-> n, min_node |-> 0, max_node |-> nodes(n),
                   stepped |-> FALSE]

\* Window::node_selection
NodeSelection ==
    \E a \in Slider(probe.min_node, slots_total(probe.slots)) :
        LET max1 == clamp_up(a, probe.max_node)
        IN \E b \in Slider(max1, slots_total(probe.slots)) :
              /\ probe' = [probe EXCEPT !.min_node = clamp_down(a, b),
                                        !.max_node = b,
                                        !.stepped = TRUE]
              /\ UNCHANGED <<ds, wr, passport, view_interval, delivered,
                             lockvars>>

NodeNext == NodeSelection

NodeSpec == NodeInit /\ [][NodeNext]_vars

MaxAdds == 3

\* The entries that hold items: the slots of a profile of two nodes, two
\* kinds a node and two slots a kind, and the panels above them.
HighlightEntries ==
    {root}
    \cup {<<a>> : a \in {0, 1}}
    \cup {<<a, b>> : a \in {0, 1}, b \in {0, 1}}
    \cup {<<a, b, c>> : a \in {0, 1}, b \in {0, 1}, c \in {0, 1}}

\* SelectedItem (search.rs:29-42), by its entry and its item_uid.
SelectedItem(entry_id, item_uid) ==
    [entry_id |-> entry_id, item_uid |-> item_uid]

\* SelectedState::default()
selected_new ==
    [highlighted_items |-> EmptyMap,
     entries_highlighted |-> {},
     selected |-> None,
     num_matches |-> 0,
     op |-> "new",
     adds |-> 0]

\* SelectedState::add_highlighted_item (search.rs:45-59)
add_highlighted_item(st, selected_item) ==
    LET entry_id == selected_item.entry_id
        selected_items == IF entry_id \in DOMAIN st.highlighted_items
                          THEN st.highlighted_items[entry_id] ELSE <<>>
    IN [st EXCEPT
          !.highlighted_items =
              Put(@, entry_id, Append(selected_items, selected_item)),
          !.entries_highlighted = @ \cup highlight(entry_id, 0, root, {}).seen,
          !.op = "add",
          !.adds = @ + 1]

\* SelectedState::clear_highlighted_items (search.rs:61-66)
clear_highlighted_items(st) ==
    [st EXCEPT !.highlighted_items = EmptyMap,
               !.entries_highlighted = {},
               !.selected = None,
               !.num_matches = 0,
               !.op = "clear",
               !.adds = 0]

HighlightInit ==
    /\ ds = ds_new
    /\ wr = wr_new
    /\ passport = {}
    /\ view_interval = IntervalDefault
    /\ delivered = {}
    /\ cursor = 0
    /\ pushing = {}
    /\ probe = selected_new

HighlightAdd ==
    \E e \in HighlightEntries : \E uid \in {1, 2} :
        /\ probe.adds < MaxAdds
        /\ probe' = add_highlighted_item(probe, SelectedItem(e, uid))
        /\ UNCHANGED <<ds, wr, passport, view_interval, delivered, lockvars>>

HighlightClear ==
    /\ probe' = clear_highlighted_items(probe)
    /\ UNCHANGED <<ds, wr, passport, view_interval, delivered, lockvars>>

\* The owner of the state writes its public fields selected and num_matches
\* (search.rs:20, 26): it selects a highlighted item and counts the match.
HighlightSelect ==
    \E e \in DOMAIN probe.highlighted_items :
        /\ probe.highlighted_items[e] # <<>>
        /\ probe.selected = None
        /\ probe' = [probe EXCEPT
                        !.selected = Some(probe.highlighted_items[e][1]),
                        !.num_matches = probe.adds,
                        !.op = "select"]
        /\ UNCHANGED <<ds, wr, passport, view_interval, delivered, lockvars>>

\* A click on a highlighted item removes it from the list of its entry; the
\* entry stays a key (app.rs:587-592).
HighlightRemove ==
    \E e \in DOMAIN probe.highlighted_items :
        /\ probe.highlighted_items[e] # <<>>
        /\ probe' = [probe EXCEPT !.highlighted_items[e] = Tail(@),
                                  !.op = "remove"]
        /\ UNCHANGED <<ds, wr, passport, view_interval, delivered, lockvars>>

HighlightNext ==
    \/ HighlightAdd
    \/ HighlightClear
    \/ HighlightSelect
    \/ HighlightRemove

HighlightSpec == HighlightInit /\ [][HighlightNext]_vars

\* The non-root prefixes of an entry id, the entry itself among them.
Prefixes(e) == {SubSeq(e, 1, k) : k \in 1..Len(e)}

\* C35 (Highlight bookkeeping).  entries_highlighted is exactly the set of
\* the non-root prefixes of the keys of highlighted_items; and right after
\* clear_highlighted_items both are empty, selected is None and num_matches
\* is 0.
C35_HighlightBookkeeping ==
    /\ probe.entries_highlighted =
          UNION {Prefixes(e) : e \in DOMAIN probe.highlighted_items}
    /\ probe.op = "clear" =>
          /\ probe.highlighted_items = EmptyMap
          /\ probe.entries_highlighted = {}
          /\ probe.selected = None
          /\ probe.num_matches = 0

\* Items of two slots of one kind and of a slot of the other node are
\* highlighted, and one of them is selected.
C35_Witness ==
    /\ {<<0, 0, 0>>, <<0, 0, 1>>, <<1, 0, 0>>} \subseteq
          DOMAIN probe.highlighted_items
    /\ Cardinality(probe.entries_highlighted) = 7
    /\ probe.selected # None
    /\ probe.num_matches = 3

\* ---------------------------------------------------------- SearchSpec
\* SelectedState::build_search_automaton and SelectedState::search
\* (search.rs:72-90).  A string is the sequence of its characters.  probe
\* holds the fields search, pattern_count, search_automaton (the patterns it
\* was built from) and last_built_string, and the ghosts text and ret, the
\* argument and the result of the last search call.
MaxSearch == 3
MaxText == 3

SearchChars == {"a", "b", "A", " "}
TextChars == {"a", "b", "A"}

\* The strings over a set of characters, up to a length.
Strings(chars, n) == UNION {[1..k -> chars] : k \in 0..n}

\* to_lowercase, and the ASCII case folding of the automaton
Lower(c) == IF c = "A" THEN "a" ELSE c
to_lowercase(s) == [i \in 1..Len(s) |-> Lower(s[i])]

\* self.search.split(' '): the pieces between the spaces, empty ones too
RECURSIVE split(_, _)
split(s, piece) ==
    IF s = <<>> THEN <<piece>>
    ELSE IF Head(s) = " " THEN <<piece>> \o split(Tail(s), <<>>)
    ELSE split(Tail(s), Append(piece, Head(s)))

\* .filter(|x| x != &"").collect()
patterns_of(s) ==
    LET nonempty(x) == x # <<>> IN SelectSeq(split(s, <<>>), nonempty)

\* The pattern occurs in the text and ends at position e, case folded.
EndsAt(p, text, e) ==
    /\ e >= Len(p)
    /\ \A k \in 1..Len(p) : Lower(text[e - Len(p) + k]) = Lower(p[k])

\* ac.find_iter(text).count(): the non-overlapping matches of the automaton
\* in its standard match kind.  From position pos on, the next match is the
\* occurrence of a pattern that ends first; the search goes on behind it.
RECURSIVE count_matches(_, _, _)
count_matches(patterns, text, pos) ==
    LET ends == {e \in (pos + 1)..Len(text) :
                    \E k \in 1..Len(patterns) :
                        /\ e - Len(patterns[k]) >= pos
                        /\ EndsAt(patterns[k], text, e)}
    IN IF ends = {} THEN 0
       ELSE LET e == CHOOSE x \in ends : \A y \in ends : x <= y
            IN 1 + count_matches(patterns, text, e)

\* SelectedState::build_search_automaton (search.rs:72-83)
build_search_automaton(st) ==
    IF st.search # st.last_built_string \/ st.search_automaton = None
    THEN [st EXCEPT !.pattern_count = Len(patterns_of(st.search)),
                    !.search_automaton = Some(patterns_of(st.search)),
                    !.last_built_string = st.search]
    ELSE st

\* SelectedState::search (search.rs:85-90)
search(st0, text) ==
    LET st == build_search_automaton(st0)
    IN [st EXCEPT !.text = Some(text),
                  !.ret = Some(count_matches(st.search_automaton[1],
                                             to_lowercase(text), 0)
                               = st.pattern_count)]

\* SelectedState::default() with the search string the user typed.
SearchInit ==
    /\ ds = ds_new
    /\ wr = wr_new
    /\ passport = {}
    /\ view_interval = IntervalDefault
    /\ delivered = {}
    /\ cursor = 0
    /\ pushing = {}
    /\ \E s \in Strings(SearchChars, MaxSearch) :
          probe = [search |-> s, pattern_count |-> 0,
                   search_automaton |-> None, last_built_string |-> <<>>,
                   text |-> None, ret |-> None]

Search ==
    \E text \in Strings(TextChars, MaxText) :
        /\ probe' = search(probe, text)
        /\ UNCHANGED <<ds, wr, passport, view_interval, delivered, lockvars>>

SearchNext == Search

SearchSpec == SearchInit /\ [][SearchNext]_vars

\* The term occurs in the text, case folded.
Occurs(term, text) == \E e \in 1..Len(text) : EndsAt(term, text, e)

\* C36 (Search is the conjunction of its terms).  search(text) returns true
\* exactly when every non-empty, space-separated term of the search string
\* occurs in the text, ASCII case-insensitively, however often a term occurs
\* and whether or not the search string repeats a term.
C36_SearchAllTerms ==
    probe.ret # None =>
        (probe.ret[1] <=>
            \A k \in 1..Len(patterns_of(probe.search)) :
                Occurs(patterns_of(probe.search)[k], probe.text[1]))

=============================================================================
